---- MODULE Spec2Model ----
(***************************************************************************)
(* Model of ddsrt's POSIX thread layer (src/ddsrt/src/threads/posix/       *)
(* threads.c): thread creation and the creation trampoline, join, the      *)
(* per-thread cleanup stack and its exit-time unwinding, and thread        *)
(* enumeration / name lookup by identifier.                                *)
(***************************************************************************)
EXTENDS Integers, Sequences, FiniteSets, TLC

VARIABLES
  \* ---- cleanup stack (threads.c:732-840)
  thread_once,         \* pthread_once_t thread_once: "INIT", "RUNNING" or "DONE"
  keysCreated,         \* number of pthread_key_create calls made so far
  thread_cleanup_key,  \* thread-specific value of thread_cleanup_key, per thread
  heap,                \* thread_cleanup_t records, by record id
  heapLimit,           \* number of records the allocator has memory for
  tstate,              \* per thread: "running" or "exited"
  ub,                  \* undefined behaviour (use after free / double free) happened
  \* history of the cleanup stack
  pushSeq,             \* per thread: record ids in the order they were pushed
  consumed,            \* records detached by a pop or unwound by thread_cleanup_fini
  req,                 \* per record: routine and argument the pusher asked for
  invokeCnt,           \* per record: number of invocations of its routine
  freeCnt,             \* per record: number of ddsrt_free calls on it
  last,                \* the last cleanup operation: who, what, result, invocations
  \* ---- a cleanup call in progress, split at pthread_once (threads.c:746-749)
  pc,                  \* per thread: "idle", "once_run", "once_wait" or "body"
  pend,                \* per thread: the call in progress
  \* ---- creation, trampoline and join (threads.c:190-235, 255-479, 524-546)
  platform,            \* the build: "linux", "qnx", "apple" or "zephyr"
  sigmask,             \* signal mask of the thread that calls ddsrt_thread_create
  selfSched,           \* policy and priority of the thread that calls ddsrt_thread_create
  currThrIdx,          \* Zephyr: index of the next statically allocated stack
  nCalls,              \* number of ddsrt_thread_create calls made
  calls,               \* per create call: its arguments, its result, the context, the thread
  lastJoin,            \* the last ddsrt_thread_join: handle, result code, *thread_result
  \* ---- enumeration (threads.c:548-729)
  live,                \* identifiers of the live threads of the process
  nextTid,             \* the identifier the next started thread gets
  lastList,            \* the last ddsrt_thread_list call
  lastName,            \* the last ddsrt_thread_getname_anythread call
  lastScan,            \* the last scan of a stat file by that call on Linux
  \* ---- naming of the calling thread (threads.c:85-181)
  selfName,            \* the name the system holds for the calling thread
  lastSet,             \* the last ddsrt_thread_setname call
  lastGet              \* the last ddsrt_thread_getname call

cleanupVars == <<thread_once, keysCreated, thread_cleanup_key, heap, heapLimit, tstate, ub,
                 pushSeq, consumed, req, invokeCnt, freeCnt, last>>

onceVars == <<pc, pend>>

createVars == <<platform, sigmask, selfSched, currThrIdx, nCalls, calls, lastJoin>>

listVars == <<live, nextTid, lastList, lastName, lastScan>>

nameVars == <<selfName, lastSet, lastGet>>

vars == <<cleanupVars, onceVars, createVars, listVars, nameVars>>

-----------------------------------------------------------------------------
(* Bounds and small input sets *)

MaxRec == 3
MaxCreate == 1
MaxTid == 3
MaxStat == 5

\* POSIX: number of rounds of destructor calls made at thread exit while
\* thread-specific values are still non-NULL (_POSIX_THREAD_DESTRUCTOR_ITERATIONS).
PTHREAD_DESTRUCTOR_ITERATIONS == 4

Threads == {1, 2}
RecIds == 1..(MaxRec + PTHREAD_DESTRUCTOR_ITERATIONS)
NULL == 0

\* What a registered cleanup routine does when it is invoked: nothing to the
\* cleanup stack, or a call back into cleanup_pop / cleanup_push.
RoutineKinds == {"plain", "pop_exec", "push_self"}
Args == {"a", "b"}
\* the (routine, argument) pairs handed to cleanup_push
Cleanups ==
  { <<"plain", "a">>, <<"pop_exec", "a">>, <<"push_self", "b">> }

NoPend == [op |-> "none", routine |-> "none", arg |-> "none", execute |-> FALSE,
           waited |-> FALSE]

Reverse(s) == [i \in 1..Len(s) |-> s[Len(s) + 1 - i]]

-----------------------------------------------------------------------------
(* The cleanup stack.  The operators below work on a memory record M holding
   the cleanup variables, and return the SET of memories the call can end in:
   an allocation or pthread_setspecific may fail, and an access to a freed
   record may go on with the stale contents or stop the process. *)

EmptyRec == [st |-> "unalloc", prev |-> NULL, routine |-> "none", arg |-> "none"]

Mem ==
  [once |-> thread_once, keys |-> keysCreated, key |-> thread_cleanup_key,
   heap |-> heap, limit |-> heapLimit, ub |-> ub, stopped |-> FALSE,
   pushSeq |-> pushSeq, consumed |-> consumed, req |-> req,
   invokeCnt |-> invokeCnt, freeCnt |-> freeCnt,
   inv |-> <<>>, ret |-> "NONE"]

\* thread_init_once / thread_init: pthread_once creates the key a single time
thread_init(M) ==
  IF M.once = "INIT"
  THEN [M EXCEPT !.once = "DONE", !.keys = @ + 1]
  ELSE M

\* ddsrt_calloc: NULL, or a fresh record (zeroed)
ddsrt_calloc(M) ==
  LET unalloc == {r \in RecIds : r <= M.limit /\ M.heap[r].st = "unalloc"}
  IN  {NULL} \cup (IF unalloc = {} THEN {}
                   ELSE {CHOOSE r \in unalloc : \A q \in unalloc : r <= q})

\* pthread_setspecific: 0, or ENOMEM when a non-NULL value is to be associated
pthread_setspecific(value) ==
  IF value = NULL THEN {"OK"} ELSE {"OK", "ENOMEM"}

\* ddsrt_free(r)
ddsrt_free(M, r) ==
  [M EXCEPT !.heap[r].st = "freed",
            !.freeCnt[r] = @ + 1,
            !.ub = @ \/ M.heap[r].st # "live"]

\* A read of the fields of record r: defined while r is live; on a freed record
\* the process may stop there, or go on with the stale contents.
Deref(M, r) ==
  IF M.heap[r].st = "live" THEN {M}
  ELSE {[M EXCEPT !.ub = TRUE], [M EXCEPT !.ub = TRUE, !.stopped = TRUE]}

RECURSIVE ddsrt_thread_cleanup_push(_, _, _, _)
RECURSIVE ddsrt_thread_cleanup_pop(_, _, _)
RECURSIVE InvokeRoutine(_, _, _)
RECURSIVE thread_cleanup_fini(_, _, _)
RECURSIVE RunDestructors(_, _, _)

\* tail->routine(tail->arg)
InvokeRoutine(M0, t, r) ==
  UNION {
    IF M.stopped THEN {M}
    ELSE
      LET routine == M.heap[r].routine
          arg == M.heap[r].arg
          M1 == [M EXCEPT !.invokeCnt[r] = @ + 1,
                          !.inv = Append(@, [rec |-> r, routine |-> routine, arg |-> arg])]
      IN  CASE routine = "pop_exec"   -> ddsrt_thread_cleanup_pop(M1, t, TRUE)
            [] routine = "push_self"  -> ddsrt_thread_cleanup_push(M1, t, routine, arg)
            [] OTHER                  -> {M1}
    : M \in Deref(M0, r) }

\* pthread_setspecific(thread_cleanup_key, tail): the value of the calling thread
SetKeyOfAllThreads(M, t, tail) == [M EXCEPT !.key = [u \in Threads |-> tail]]
SetKeyAfterPush(M, t, tail) == [M EXCEPT !.key[t] = tail]

\* the failure branch of pthread_setspecific in cleanup_push: ddsrt_free(tail)
PushFailKeepsRecord(M, tail) == M
PushFailRelease(M, tail) == ddsrt_free(M, tail)

ddsrt_thread_cleanup_push(M0, t, routine, arg) ==
  LET M1 == thread_init(M0)
  IN  UNION {
        IF tail = NULL
        THEN {[M1 EXCEPT !.ret = "OUT_OF_RESOURCES"]}
        ELSE
          LET prev == M1.key[t]
              M2 == [M1 EXCEPT !.heap[tail] = [st |-> "live", prev |-> prev,
                                               routine |-> routine, arg |-> arg],
                               !.req[tail] = [routine |-> routine, arg |-> arg]]
          IN  { IF err = "OK"
                THEN [SetKeyAfterPush(M2, t, tail) EXCEPT
                         !.pushSeq[t] = Append(@, tail), !.ret = "OK"]
                ELSE [PushFailRelease(M2, tail) EXCEPT !.ret = "OUT_OF_RESOURCES"]
              : err \in pthread_setspecific(tail) }
      : tail \in ddsrt_calloc(M1) }

\* pthread_setspecific(thread_cleanup_key, tail->prev)
SetKeyAfterPopDropsRest(M, t, tail) == [M EXCEPT !.key[t] = NULL]
SetKeyAfterPop(M, t, tail) == [M EXCEPT !.key[t] = M.heap[tail].prev]

ddsrt_thread_cleanup_pop(M0, t, execute) ==
  LET M1 == thread_init(M0)
      tail == M1.key[t]
  IN  IF tail = NULL
      THEN {[M1 EXCEPT !.ret = "OK"]}
      ELSE UNION {
             IF M.stopped THEN {M}
             ELSE UNION {
                    IF err # "OK"
                    THEN {[M EXCEPT !.ret = "OUT_OF_RESOURCES"]}
                    ELSE
                      LET M2 == [SetKeyAfterPop(M, t, tail) EXCEPT
                                    !.consumed = @ \cup {tail}]
                          S == IF execute THEN InvokeRoutine(M2, t, tail) ELSE {M2}
                      IN  { IF m.stopped THEN m
                            ELSE [ddsrt_free(m, tail) EXCEPT !.ret = "OK"]
                          : m \in S }
                  : err \in pthread_setspecific(M.heap[tail].prev) }
           : M \in Deref(M1, tail) }

\* prev = tail->prev, read before the routine is invoked
FiniPrevNone(M, tail) == NULL
FiniPrev(M, tail) == M.heap[tail].prev

\* the while loop of thread_cleanup_fini, entered with tail = arg
thread_cleanup_fini(M0, t, tail) ==
  IF tail = NULL \/ M0.stopped THEN {M0}
  ELSE UNION {
         IF M.stopped THEN {M}
         ELSE
           LET prev == FiniPrev(M, tail)
               M1 == [M EXCEPT !.consumed = @ \cup {tail}]
           IN  UNION { IF m.stopped THEN {m}
                       ELSE thread_cleanup_fini(ddsrt_free(m, tail), t, prev)
                     : m \in InvokeRoutine(M1, t, tail) }
       : M \in Deref(M0, tail) }

\* ddsrt_thread_init
ddsrt_thread_init(M0) == {[thread_init(M0) EXCEPT !.ret = "OK"]}

\* the end of ddsrt_thread_fini: pthread_setspecific(thread_cleanup_key, NULL)
FiniKeepsKey(M, t) == M
FiniClearKey(M, t) == [M EXCEPT !.key[t] = NULL]

\* ddsrt_thread_fini
ddsrt_thread_fini(M0, t) ==
  LET M1 == thread_init(M0)
      tail == M1.key[t]
  IN  IF tail = NULL
      THEN {[M1 EXCEPT !.ret = "OK"]}
      ELSE { IF m.stopped THEN m
             ELSE [FiniClearKey(m, t) EXCEPT !.ret = "OK"]
           : m \in thread_cleanup_fini(M1, t, tail) }

\* Thread exit: for a key with a destructor and a non-NULL value, the value is
\* set to NULL and the destructor is called with the old value; this repeats
\* while values are non-NULL, at most PTHREAD_DESTRUCTOR_ITERATIONS times.
RunDestructors(M0, t, round) ==
  IF M0.stopped \/ M0.once # "DONE" \/ M0.key[t] = NULL
     \/ round > PTHREAD_DESTRUCTOR_ITERATIONS
  THEN {M0}
  ELSE LET value == M0.key[t]
           M1 == [M0 EXCEPT !.key[t] = NULL]
       IN  UNION { RunDestructors(m, t, round + 1)
                 : m \in thread_cleanup_fini(M1, t, value) }

-----------------------------------------------------------------------------
(* Actions of the cleanup stack *)

Commit(M, t, op, execute) ==
  /\ thread_once' = M.once
  /\ keysCreated' = M.keys
  /\ thread_cleanup_key' = M.key
  /\ heap' = M.heap
  /\ ub' = M.ub
  /\ pushSeq' = M.pushSeq
  /\ consumed' = M.consumed
  /\ req' = M.req
  /\ invokeCnt' = M.invokeCnt
  /\ freeCnt' = M.freeCnt
  /\ last' = [op |-> op, t |-> t, execute |-> execute,
              ret |-> IF M.stopped THEN "CRASH" ELSE M.ret, inv |-> M.inv]
  /\ UNCHANGED <<heapLimit, createVars, listVars, nameVars>>

CanRun(t) == tstate[t] = "running" /\ ~ub

CleanupPush(t) ==
  /\ CanRun(t)
  /\ \E c \in Cleanups :
       \E M \in ddsrt_thread_cleanup_push(Mem, t, c[1], c[2]) :
         Commit(M, t, "push", FALSE)
  /\ UNCHANGED <<tstate, onceVars>>

CleanupPop(t) ==
  /\ CanRun(t)
  /\ \E execute \in BOOLEAN :
       \E M \in ddsrt_thread_cleanup_pop(Mem, t, execute) :
         Commit(M, t, "pop", execute)
  /\ UNCHANGED <<tstate, onceVars>>

ThreadInit(t) ==
  /\ CanRun(t)
  /\ \E M \in ddsrt_thread_init(Mem) : Commit(M, t, "init", FALSE)
  /\ UNCHANGED <<tstate, onceVars>>

ThreadFini(t) ==
  /\ CanRun(t)
  /\ \E M \in ddsrt_thread_fini(Mem, t) : Commit(M, t, "fini", FALSE)
  /\ UNCHANGED <<tstate, onceVars>>

ThreadExit(t) ==
  /\ CanRun(t)
  /\ \E M \in RunDestructors(Mem, t, 1) : Commit(M, t, "exit", FALSE)
  /\ tstate' = [tstate EXCEPT ![t] = "exited"]
  /\ UNCHANGED onceVars

InitCleanupMem(running, limit) ==
  /\ heapLimit = limit
  /\ thread_once = "INIT"
  /\ keysCreated = 0
  /\ thread_cleanup_key = [t \in Threads |-> NULL]
  /\ heap = [r \in RecIds |-> EmptyRec]
  /\ tstate = [t \in Threads |-> IF t \in running THEN "running" ELSE "unstarted"]
  /\ ub = FALSE
  /\ pushSeq = [t \in Threads |-> <<>>]
  /\ consumed = {}
  /\ req = [r \in RecIds |-> [routine |-> "none", arg |-> "none"]]
  /\ invokeCnt = [r \in RecIds |-> 0]
  /\ freeCnt = [r \in RecIds |-> 0]
  /\ last = [op |-> "none", t |-> 0, execute |-> FALSE, ret |-> "NONE", inv |-> <<>>]
  /\ pc = [t \in Threads |-> "idle"]
  /\ pend = [t \in Threads |-> NoPend]

InitCleanup(running) == InitCleanupMem(running, MaxRec)

\* The program calls cleanup_push while fewer than MaxRec records were ever
\* allocated; memory beyond that is for the records that cleanup routines push
\* while a stack is unwound.
RoomToPush == Cardinality({r \in RecIds : heap[r].st # "unalloc"}) < MaxRec

UnwindPush(t) == RoomToPush /\ CleanupPush(t)

\* The same calls with pthread_once as steps of their own, for threads that run
\* side by side: a call enters thread_init, the first caller runs
\* thread_init_once while later callers wait for it, and then the rest of the
\* call runs on the caller's thread-specific value.

\* the calls threads make side by side
SharedCalls ==
  { [op |-> "push", routine |-> "plain", arg |-> "a", execute |-> FALSE, waited |-> FALSE],
    [op |-> "pop",  routine |-> "none",  arg |-> "none", execute |-> TRUE, waited |-> FALSE],
    [op |-> "init", routine |-> "none",  arg |-> "none", execute |-> FALSE, waited |-> FALSE],
    [op |-> "fini", routine |-> "none",  arg |-> "none", execute |-> FALSE, waited |-> FALSE] }

\* pthread_once returns to a caller once the init routine has completed
OnceReturnsEarly(once) == once # "INIT"
OnceReturns(once) == once = "DONE"

\* a thread calls push, pop, init or fini and enters pthread_once
CallEnter(t) ==
  /\ CanRun(t)
  /\ pc[t] = "idle"
  /\ \E c \in SharedCalls :
       IF thread_once = "INIT"
       THEN /\ thread_once' = "RUNNING"
            /\ pc' = [pc EXCEPT ![t] = "once_run"]
            /\ pend' = [pend EXCEPT ![t] = c]
       ELSE IF OnceReturns(thread_once)
       THEN /\ pc' = [pc EXCEPT ![t] = "body"]
            /\ pend' = [pend EXCEPT ![t] = c]
            /\ UNCHANGED thread_once
       ELSE /\ pc' = [pc EXCEPT ![t] = "once_wait"]
            /\ pend' = [pend EXCEPT ![t] = [c EXCEPT !.waited = TRUE]]
            /\ UNCHANGED thread_once
  /\ UNCHANGED <<keysCreated, thread_cleanup_key, heap, heapLimit, tstate, ub, pushSeq, consumed,
                 req, invokeCnt, freeCnt, last, createVars, listVars, nameVars>>

\* thread_init_once: pthread_key_create, after which pthread_once is complete
OnceRun(t) ==
  /\ pc[t] = "once_run"
  /\ keysCreated' = keysCreated + 1
  /\ thread_once' = "DONE"
  /\ pc' = [pc EXCEPT ![t] = "body"]
  /\ UNCHANGED <<thread_cleanup_key, heap, heapLimit, tstate, ub, pushSeq, consumed,
                 req, invokeCnt, freeCnt, last, pend, createVars, listVars, nameVars>>

\* a caller blocked in pthread_once returns from it
OnceWake(t) ==
  /\ pc[t] = "once_wait"
  /\ OnceReturns(thread_once)
  /\ pc' = [pc EXCEPT ![t] = "body"]
  /\ UNCHANGED <<cleanupVars, pend, createVars, listVars, nameVars>>

\* the rest of the call, after thread_init()
CallBody(t) ==
  /\ pc[t] = "body"
  /\ ~ub
  /\ LET c == pend[t]
         outcomes ==
           CASE c.op = "push" -> ddsrt_thread_cleanup_push(Mem, t, c.routine, c.arg)
             [] c.op = "pop"  -> ddsrt_thread_cleanup_pop(Mem, t, c.execute)
             [] c.op = "init" -> ddsrt_thread_init(Mem)
             [] OTHER         -> ddsrt_thread_fini(Mem, t)
     IN  \E M \in outcomes : Commit(M, t, c.op, c.execute)
  /\ pc' = [pc EXCEPT ![t] = "idle"]
  /\ pend' = [pend EXCEPT ![t] = NoPend]
  /\ UNCHANGED tstate

\* a thread that is in no call terminates
SharedExit(t) ==
  /\ pc[t] = "idle"
  /\ ThreadExit(t)

-----------------------------------------------------------------------------
(* Thread creation: ddsrt_thread_create, os_startRoutineWrapper, ddsrt_thread_join *)

Platforms == {"linux", "qnx", "apple", "zephyr"}

Signals == {"SIGINT", "SIGTERM", "SIGXCPU"}

CYCLONEDDS_THREAD_COUNT == 10
CYCLONEDDS_THREAD_STACK_SIZE == 32768
PTHREAD_STACK_MIN == 16384
CPU_SETSIZE == 1024

\* valid priorities of a native policy
sched_get_priority_min(policy) == IF policy = "SCHED_OTHER" THEN 0 ELSE 1
sched_get_priority_max(policy) == IF policy = "SCHED_OTHER" THEN 0 ELSE 99

PrioValid(policy, prio) ==
  prio >= sched_get_priority_min(policy) /\ prio <= sched_get_priority_max(policy)

\* native calls of ddsrt_thread_create that may report a failure
Faults ==
  {"none", "pthread_attr_init", "pthread_attr_setscope", "pthread_attr_setdetachstate",
   "pthread_attr_setstacksize", "pthread_attr_setstack", "getschedparam",
   "pthread_attr_setschedpolicy", "pthread_attr_setschedparam",
   "pthread_attr_setinheritsched", "pthread_attr_setaffinity_np", "pthread_create"}

\* ddsrt_threadattr_init (threads.c of ddsrt/src)
ddsrt_threadattr_init ==
  [schedClass |-> "DEFAULT", schedPriority |-> 0, schedAffinitySet |-> <<>>, stackSize |-> 0]

\* sigfillset; sigdelset(SIGXCPU); sigprocmask(SIG_BLOCK, &set, &oset)
BlockForSpawn(mask) == mask \cup (Signals \ {"SIGXCPU"})

\* the mask of the caller when ddsrt_thread_create returns
MaskAfterCreate(oset, blocked, spawnFailed) ==
  IF spawnFailed THEN blocked ELSE oset

\* true when the context is released by the creator (label err_create)
CreatorFreesAlways(spawnFailed) == TRUE
CreatorFrees(spawnFailed) == spawnFailed

\* the "goto err" / early return outcome
CreateError(mask, idx, hit, warned) ==
  [ret |-> "ERROR", faultHit |-> hit, warned |-> warned, spawned |-> FALSE,
   ctxAlloc |-> FALSE, ctxFreed |-> FALSE, maskAtSpawn |-> {}, mask |-> mask,
   idx |-> idx, policy |-> "none", prio |-> 0, affinity |-> {}, stackSize |-> 0]

\* Scheduling part (lines 335-416): the attribute's policy and priority, or an error
\* line 340: the class is DEFAULT and a priority is set
DefaultPriorityAccepted(attr) == FALSE
DefaultPriorityRejected(attr) == attr.schedPriority # 0

SchedConfig(plat, self, attr, fault) ==
  IF plat # "zephyr" /\ attr.schedClass = "DEFAULT"
  THEN IF DefaultPriorityRejected(attr)
       THEN [ok |-> FALSE, hit |-> FALSE, warned |-> FALSE]
       ELSE \* nothing is set: the new thread inherits the creator's scheduling
            [ok |-> TRUE, hit |-> FALSE, warned |-> FALSE,
             policy |-> self.policy, prio |-> self.prio]
  ELSE
    IF fault = "getschedparam"
    THEN [ok |-> FALSE, hit |-> TRUE, warned |-> FALSE]
    ELSE
      LET \* pthread_getschedparam(pthread_self()), or the attribute's defaults on Zephyr
          cur == IF plat = "zephyr" THEN [policy |-> "SCHED_RR", prio |-> 1] ELSE self
          policy == CASE attr.schedClass = "REALTIME"  -> "SCHED_FIFO"
                      [] attr.schedClass = "TIMESHARE" -> "SCHED_OTHER"
                      [] OTHER                         -> cur.policy
          inRange == PrioValid(policy, attr.schedPriority)
          prio == IF inRange THEN attr.schedPriority ELSE cur.prio
          warned == ~inRange
      IN  IF attr.schedClass # "DEFAULT" /\ fault = "pthread_attr_setschedpolicy"
          THEN [ok |-> FALSE, hit |-> TRUE, warned |-> FALSE]
          ELSE IF fault = "pthread_attr_setschedparam"
          THEN [ok |-> FALSE, hit |-> TRUE, warned |-> warned]
          ELSE IF ~PrioValid(policy, prio)
          THEN \* pthread_attr_setschedparam: EINVAL, the priority is not valid for the policy
               [ok |-> FALSE, hit |-> FALSE, warned |-> warned]
          ELSE IF plat # "zephyr" /\ fault = "pthread_attr_setinheritsched"
          THEN [ok |-> FALSE, hit |-> TRUE, warned |-> warned]
          ELSE [ok |-> TRUE, hit |-> FALSE, warned |-> warned,
                policy |-> policy, prio |-> prio]

\* Affinity part (lines 418-441)
\* line 430: CPU_SET adds one id to the mask
CPU_SET_Overwrite(cpu, cpuset) == {cpu}
CPU_SET(cpu, cpuset) == cpuset \cup {cpu}

\* lines 423-431: the loop over the requested ids, from index i with mask cpuset
RECURSIVE AffinityLoop(_, _, _)
AffinityLoop(set, i, cpuset) ==
  IF i > Len(set) THEN [ok |-> TRUE, cpuset |-> cpuset]
  ELSE IF set[i] >= CPU_SETSIZE THEN [ok |-> FALSE, cpuset |-> cpuset]
  ELSE AffinityLoop(set, i + 1, CPU_SET(set[i], cpuset))

AffinityConfig(plat, attr, fault) ==
  LET set == attr.schedAffinitySet
      loop == AffinityLoop(set, 1, {})
  IN  IF Len(set) = 0 THEN [ok |-> TRUE, hit |-> FALSE, cpuset |-> {}]
      ELSE IF plat # "linux" THEN [ok |-> FALSE, hit |-> FALSE]
      ELSE IF ~loop.ok THEN [ok |-> FALSE, hit |-> FALSE]
      ELSE IF fault = "pthread_attr_setaffinity_np" THEN [ok |-> FALSE, hit |-> TRUE]
      ELSE [ok |-> TRUE, hit |-> FALSE, cpuset |-> loop.cpuset]

\* a thread running os_startRoutineWrapper exists when pthread_create returned 0
SpawnedAlways(spawnFailed) == TRUE
Spawned(spawnFailed) == ~spawnFailed

ddsrt_thread_create(plat, self, mask, idx, attr, fault) ==
  LET zephyr == plat = "zephyr"
      stack1 == IF zephyr THEN CYCLONEDDS_THREAD_STACK_SIZE ELSE attr.stackSize
      stack2 == IF stack1 # 0 /\ stack1 < PTHREAD_STACK_MIN THEN PTHREAD_STACK_MIN ELSE stack1
      idx2 == IF zephyr /\ stack1 # 0 THEN idx + 1 ELSE idx
      sched == SchedConfig(plat, self, attr, fault)
      aff == AffinityConfig(plat, attr, fault)
  IN
  IF zephyr /\ attr.stackSize # 0 /\ attr.stackSize > CYCLONEDDS_THREAD_STACK_SIZE
  THEN CreateError(mask, idx, FALSE, FALSE)
  ELSE IF fault = "pthread_attr_init" THEN CreateError(mask, idx, TRUE, FALSE)
  ELSE IF ~zephyr /\ fault = "pthread_attr_setscope" THEN CreateError(mask, idx, TRUE, FALSE)
  ELSE IF fault = "pthread_attr_setdetachstate" THEN CreateError(mask, idx, TRUE, FALSE)
  ELSE IF stack1 # 0 /\ ~zephyr /\ fault = "pthread_attr_setstacksize"
  THEN CreateError(mask, idx, TRUE, FALSE)
  ELSE IF stack1 # 0 /\ zephyr /\ idx >= CYCLONEDDS_THREAD_COUNT
  THEN CreateError(mask, idx, FALSE, FALSE)
  ELSE IF stack1 # 0 /\ zephyr /\ fault = "pthread_attr_setstack"
  THEN CreateError(mask, idx, TRUE, FALSE)
  ELSE IF ~sched.ok THEN CreateError(mask, idx2, sched.hit, sched.warned)
  ELSE IF ~aff.ok THEN CreateError(mask, idx2, aff.hit, sched.warned)
  ELSE
    LET spawnFailed == fault = "pthread_create"
        oset == mask
        blocked == IF zephyr THEN mask ELSE BlockForSpawn(mask)
    IN  [ret |-> IF spawnFailed THEN "ERROR" ELSE "OK",
         faultHit |-> spawnFailed, warned |-> sched.warned,
         spawned |-> Spawned(spawnFailed),
         ctxAlloc |-> TRUE, ctxFreed |-> CreatorFrees(spawnFailed),
         maskAtSpawn |-> blocked,
         mask |-> IF zephyr THEN mask ELSE MaskAfterCreate(oset, blocked, spawnFailed),
         idx |-> idx2, policy |-> sched.policy, prio |-> sched.prio,
         affinity |-> aff.cpuset, stackSize |-> stack2]

-----------------------------------------------------------------------------
(* Values of the width of a pointer are four 16-bit limbs, least significant
   first; a uint32_t is two limbs. *)

RetVals == { <<7, 0, 0, 0>>, <<65535, 65535, 0, 0>>, <<1, 2, 3, 0>> }

\* (uint32_t) ((uintptr_t) vthread_result)
TruncTo16(v) == <<v[1]>>
TruncTo32(v) == <<v[1], v[2]>>

Names == { <<"w">>, <<"i", "o">> }
CallArgs ==
  { [name |-> <<"w">>, routine |-> "f", arg |-> "x"],
    [name |-> <<"i", "o">>, routine |-> "g", arg |-> "y"] }

MAXTHREADNAMESIZE == 15
MAXTHREADNAMESIZE_APPLE == 64
NTO_THREAD_NAME_MAX == 100

\* MAXTHREADNAMESIZE of the build
MaxNameSize(plat) ==
  CASE plat = "linux" -> MAXTHREADNAMESIZE
    [] plat = "qnx"   -> NTO_THREAD_NAME_MAX - 1
    [] OTHER          -> MAXTHREADNAMESIZE_APPLE

IsPrefix(p, s) == Len(p) <= Len(s) /\ SubSeq(s, 1, Len(p)) = p

Prefix(s, n) == SubSeq(s, 1, IF Len(s) < n THEN Len(s) ELSE n)

\* ddsrt_strlcpy(dest, src, size): what dest holds, and the length returned
ddsrt_strlcpy(src, size) ==
  [str |-> IF size = 0 THEN <<>> ELSE Prefix(src, size - 1), cnt |-> Len(src)]

\* pthread_setname_np with a name above the system's limit: the call fails and
\* the name stays (ERANGE on Linux, ENAMETOOLONG on macOS), or the system cuts it
NativeSetName(plat, old, name) ==
  IF Len(name) <= MaxNameSize(plat) THEN {name}
  ELSE {old, Prefix(name, MaxNameSize(plat))}

\* ddsrt_thread_setname: the names the thread can carry afterwards
ddsrt_thread_setname(plat, old, name) ==
  IF plat = "linux"
  THEN NativeSetName(plat, old, ddsrt_strlcpy(name, MAXTHREADNAMESIZE + 1).str)
  ELSE NativeSetName(plat, old, name)

\* ddsrt_gettid() printed with "%d"
SelfTid == <<"4", "2">>

\* ddsrt_thread_getname: the string left in name[0 .. size-1] and the count returned
ddsrt_thread_getname(plat, held, size) ==
  LET buf == Prefix(held, MaxNameSize(plat))
      c == ddsrt_strlcpy(buf, size)
  IN  IF c.cnt = 0
      THEN [str |-> Prefix(SelfTid, size - 1), cnt |-> Len(SelfTid)]
      ELSE c

CallIds == 1..MaxCreate

NoCall ==
  [made |-> FALSE, attr |-> ddsrt_threadattr_init, name |-> <<>>, routine |-> "none",
   arg |-> "none", ret |-> "NONE", faultHit |-> FALSE, warned |-> FALSE,
   maskBefore |-> {}, maskAtSpawn |-> {}, maskAfter |-> {},
   ctx |-> "none", releasedBy |-> <<>>,
   phase |-> "none", policy |-> "none", prio |-> 0, affinity |-> {}, stackSize |-> 0,
   tmask |-> {}, tname |-> <<>>, runs |-> 0, argSeen |-> "none", ctxAtRun |-> "none",
   resultValue |-> <<>>, retval |-> <<>>,
   joiner |-> "none", joinAt |-> "none", steps |-> <<>>]

NoJoin == [h |-> 0, ret |-> "NONE", result |-> <<>>]

\* ddsrt_thread_create, up to its return
CreateCall(attrs) ==
  \E attr \in attrs, c \in CallArgs, fault \in Faults :
    LET r == ddsrt_thread_create(platform, selfSched, sigmask, currThrIdx, attr, fault)
        h == nCalls + 1
    IN  /\ fault = "none" \/ r.faultHit
        /\ nCalls' = h
        /\ sigmask' = r.mask
        /\ currThrIdx' = r.idx
        /\ calls' = [calls EXCEPT ![h] =
             [NoCall EXCEPT
                !.made = TRUE, !.attr = attr, !.name = c.name, !.routine = c.routine,
                !.arg = c.arg, !.ret = r.ret, !.faultHit = r.faultHit,
                !.warned = r.warned, !.maskBefore = sigmask,
                !.maskAtSpawn = r.maskAtSpawn, !.maskAfter = r.mask,
                !.ctx = IF ~r.ctxAlloc THEN "none"
                        ELSE IF r.ctxFreed THEN "freed" ELSE "live",
                !.releasedBy = IF r.ctxAlloc /\ r.ctxFreed THEN <<"creator">> ELSE <<>>,
                !.phase = IF r.spawned THEN "spawned" ELSE "none",
                !.policy = r.policy, !.prio = r.prio, !.affinity = r.affinity,
                !.stackSize = r.stackSize,
                !.tmask = IF r.spawned THEN r.maskAtSpawn ELSE {}]]
        /\ UNCHANGED <<platform, selfSched, lastJoin, cleanupVars, onceVars, listVars, nameVars>>

\* the attribute descriptors of the life-cycle specification
LifecycleAttrs ==
  { ddsrt_threadattr_init,
    [ddsrt_threadattr_init EXCEPT !.schedPriority = 1],
    [ddsrt_threadattr_init EXCEPT !.schedClass = "REALTIME", !.schedPriority = 50],
    [ddsrt_threadattr_init EXCEPT !.schedAffinitySet = <<0, 1024>>] }

Create ==
  /\ nCalls < MaxCreate
  /\ CreateCall(LifecycleAttrs)

\* the attribute descriptors of the scheduling specification
SchedClasses == {"DEFAULT", "REALTIME", "TIMESHARE"}
SchedPriorities == {0, 1, 50, 100}
AffinitySets == { <<>>, <<0, 1>>, <<1, 0, 0>>, <<0, 1024>> }
StackSizes == {0, 1024, 65536}
AllAttrs ==
  [schedClass : SchedClasses, schedPriority : SchedPriorities,
   schedAffinitySet : AffinitySets, stackSize : StackSizes]

CreateAny ==
  /\ nCalls = 0
  /\ CreateCall(AllAttrs)

\* os_startRoutineWrapper, line 195: ddsrt_thread_setname(context->name)
TrampSetName(h) ==
  /\ calls[h].phase = "spawned"
  /\ \E n \in ddsrt_thread_setname(platform, <<>>, calls[h].name) :
       calls' = [calls EXCEPT ![h].phase = "named", ![h].tname = n,
                              ![h].steps = Append(@, "setname")]
  /\ UNCHANGED <<platform, sigmask, selfSched, currThrIdx, nCalls, lastJoin, cleanupVars, onceVars, listVars, nameVars>>

\* where the trampoline is when it calls the routine: past ddsrt_thread_setname
PhaseBeforeRoutineUnnamed == "spawned"
PhaseBeforeRoutine == "named"

\* line 198: resultValue = context->routine(context->arg)
TrampRun(h) ==
  /\ calls[h].phase = PhaseBeforeRoutine
  /\ \E v \in RetVals :
       calls' = [calls EXCEPT ![h].phase = "ran",
                              ![h].runs = @ + 1,
                              ![h].argSeen = calls[h].arg,
                              ![h].ctxAtRun = calls[h].ctx,
                              ![h].resultValue = v,
                              ![h].steps = Append(@, "routine")]
  /\ UNCHANGED <<platform, sigmask, selfSched, currThrIdx, nCalls, lastJoin, cleanupVars, onceVars, listVars, nameVars>>

\* lines 202-203: ddsrt_free(context->name); ddsrt_free(context)
TrampRelease(h) ==
  /\ calls[h].phase = "ran"
  /\ calls' = [calls EXCEPT ![h].phase = "released",
                            ![h].ctx = "freed",
                            ![h].releasedBy = Append(@, "thread"),
                            ![h].steps = Append(@, "release")]
  /\ UNCHANGED <<platform, sigmask, selfSched, currThrIdx, nCalls, lastJoin, cleanupVars, onceVars, listVars, nameVars>>

\* line 234: return (void *) resultValue; the thread terminates
TrampReturn(h) ==
  /\ calls[h].phase = "released"
  /\ calls' = [calls EXCEPT ![h].phase = "terminated",
                            ![h].retval = calls[h].resultValue,
                            ![h].steps = Append(@, "return")]
  /\ UNCHANGED <<platform, sigmask, selfSched, currThrIdx, nCalls, lastJoin, cleanupVars, onceVars, listVars, nameVars>>

\* the value stored through thread_result
JoinResult16(vthread_result) == TruncTo16(vthread_result)
JoinResult(vthread_result) == TruncTo32(vthread_result)

\* pthread_join lets its caller go on once the target thread has terminated
JoinReturnsEarly(phase) == phase \in {"ran", "released", "terminated"}
JoinReturns(phase) == phase = "terminated"

\* a thread calls ddsrt_thread_join on a handle not joined yet: it is in
\* pthread_join from here on
JoinCall(h) ==
  /\ calls[h].ret = "OK"
  /\ calls[h].phase # "joined"
  /\ calls[h].joiner = "none"
  /\ calls' = [calls EXCEPT ![h].joiner = "blocked", ![h].joinAt = IF JoinReturns(calls[h].phase) THEN "late" ELSE "early"]
  /\ UNCHANGED <<platform, sigmask, selfSched, currThrIdx, nCalls, lastJoin, cleanupVars, onceVars, listVars, nameVars>>

\* ddsrt_thread_join: pthread_join returns once the thread has terminated, and
\* fails on a handle that was joined before
ddsrt_thread_join(h) ==
  /\ calls[h].ret = "OK"
  /\ \/ /\ calls[h].joiner = "blocked"
        /\ JoinReturns(calls[h].phase)
        /\ \E wantResult \in BOOLEAN :
             lastJoin' = [h |-> h, ret |-> "OK",
                          result |-> IF wantResult THEN JoinResult(calls[h].retval)
                                     ELSE <<>>]
        /\ calls' = [calls EXCEPT ![h].phase = "joined", ![h].joiner = "returned"]
     \/ /\ calls[h].phase = "joined"
        /\ lastJoin' = [h |-> h, ret |-> "ERROR", result |-> <<>>]
        /\ UNCHANGED calls
  /\ UNCHANGED <<platform, sigmask, selfSched, currThrIdx, nCalls, cleanupVars, onceVars, listVars, nameVars>>

InitCreate(platforms, masks, scheds) ==
  /\ platform \in platforms
  /\ sigmask \in masks
  /\ selfSched \in scheds
  /\ currThrIdx \in (IF platform = "zephyr" THEN {0, CYCLONEDDS_THREAD_COUNT} ELSE {0})
  /\ nCalls = 0
  /\ calls = [h \in CallIds |-> NoCall]
  /\ lastJoin = NoJoin

OtherSched == [policy |-> "SCHED_OTHER", prio |-> 0]
FifoSched == [policy |-> "SCHED_FIFO", prio |-> 50]

-----------------------------------------------------------------------------
(* Thread enumeration: ddsrt_thread_list and ddsrt_thread_getname_anythread *)

Tids == 1..MaxTid

RECURSIVE Ascending(_)
\* the elements of a set of numbers, smallest first
Ascending(S) ==
  IF S = {} THEN <<>>
  ELSE LET m == CHOOSE x \in S : \A y \in S : x <= y
       IN  <<m>> \o Ascending(S \ {m})

Min(a, b) == IF a < b THEN a ELSE b

\* the name the system holds for a thread
NameOf(tid) ==
  CASE tid = 1 -> <<"m", "a", "i", "n">>
    [] tid = 2 -> <<"a", ")", "b">>
    [] tid = 3 -> <<>>
    [] OTHER   -> <<"w">>

Digit(n) == CASE n = 0 -> "0" [] n = 1 -> "1" [] n = 2 -> "2" [] n = 3 -> "3"
              [] n = 4 -> "4" [] n = 5 -> "5" [] n = 6 -> "6" [] n = 7 -> "7"
              [] n = 8 -> "8" [] OTHER -> "9"

ListOk(n, buf) == [err |-> "OK", count |-> n, buf |-> buf]
ListErr(code, buf) == [err |-> code, count |-> 0, buf |-> buf]

\* Linux: the entries of /proc/self/task are ".", ".." and one per live thread
ListLinux(liveNow, size, fault) ==
  IF fault = "open" THEN ListErr("ERROR", <<>>)
  ELSE IF fault = "entry" THEN ListErr("ERROR", <<>>)
  ELSE LET tids == Ascending(liveNow)
           n == Len(tids)
       IN  IF n = 0 THEN ListErr("ERROR", <<>>)
           ELSE ListOk(n, SubSeq(tids, 1, Min(n, size)))

\* QNX: the loop of lines 640-647 leaves at n = size
QnxCount(num_threads, size) == Min(num_threads, size)

ListQnx(liveNow, size, fault) ==
  IF fault = "open" THEN ListErr("NOT_FOUND", <<>>)
  ELSE IF fault = "query" THEN ListErr("ERROR", <<>>)
  ELSE LET num_threads == Cardinality(liveNow)
           n == QnxCount(num_threads, size)
       IN  IF n = 0 THEN ListErr("ERROR", <<>>)
           ELSE ListOk(n, [i \in 1..Min(n, size) |-> i])

\* macOS: task_threads gives the array of threads and its length
ListApple(liveNow, size, fault) ==
  IF fault \in {"open", "query"} THEN ListErr("ERROR", <<>>)
  ELSE LET tasks == Ascending(liveNow)
           count == Len(tasks)
       IN  ListOk(count, SubSeq(tasks, 1, Min(count, size)))

\* what can go wrong in the system's enumeration: it cannot be opened, it cannot
\* be queried, an entry is unreadable, or it reports no thread at all
ListFaults(plat) ==
  CASE plat = "linux" -> {"none", "open", "entry", "empty"}
    [] plat = "qnx"   -> {"none", "open", "query", "empty"}
    [] OTHER          -> {"none", "query", "empty"}

ddsrt_thread_list(plat, liveNow, size, fault) ==
  LET reported == IF fault = "empty" THEN {} ELSE liveNow
  IN  CASE plat = "linux" -> ListLinux(reported, size, fault)
        [] plat = "qnx"   -> ListQnx(reported, size, fault)
        [] OTHER          -> ListApple(reported, size, fault)

\* /proc/self/task/<tid>/stat: "<tid> (<name>) S ..."
StatContent(tid) == <<Digit(tid), " ", "(">> \o NameOf(tid) \o <<")", " ", "S", " ", "1">>

RECURSIVE SkipToParen(_)
\* the first loop of lines 595-597: what follows the first '('
SkipToParen(s) ==
  IF s = <<>> THEN <<>>
  ELSE IF Head(s) = "(" THEN Tail(s)
  ELSE SkipToParen(Tail(s))

\* line 602: the byte is stored when it leaves room for the terminator
HasRoomNoTerminator(namepos, size) == namepos < size
HasRoom(namepos, size) == namepos + 1 < size

RECURSIVE ScanName(_, _, _, _)
\* the second loop, lines 598-604: the bytes written and namelen
ScanName(s, size, name, namelen) ==
  IF s = <<>> THEN [name |-> name, namelen |-> namelen]
  ELSE LET c == Head(s)
           namelen2 == IF c = ")" THEN Len(name) ELSE namelen
           name2 == IF HasRoom(Len(name), size) THEN Append(name, c) ELSE name
       IN  ScanName(Tail(s), size, name2, namelen2)

NameResult(code, str, overrun) == [ret |-> code, name |-> str, overrun |-> overrun]

\* lines 594-608 on the content of the stat file: the bytes the loop stored,
\* namelen, whether the assertion of line 606 holds, the 0-based indices of
\* name[] written (the terminator included) and the string left in name
ScanStat(content, size) ==
  LET r == ScanName(SkipToParen(content), size, <<>>, 0)
      asserted == size = 0 \/ r.namelen < size
  IN  [stored |-> r.name, namelen |-> r.namelen, asserted |-> asserted,
       written |-> {i - 1 : i \in 1..Len(r.name)}
                     \cup (IF size > 0 THEN {r.namelen} ELSE {}),
       name |-> SubSeq(r.name, 1, Min(r.namelen, Len(r.name)))]

GetNameLinux(liveNow, tid, size) ==
  IF tid \notin liveNow THEN NameResult("NOT_FOUND", <<>>, FALSE)
  ELSE LET r == ScanStat(StatContent(tid), size)
       IN  NameResult("OK", r.name, ~r.asserted)

\* QNX: sizeof(tidinfo.data) - sizeof(*tn)
QnxNameBufLen == 1012

\* devctl(DCMD_PROC_THREADCTL): the thread asked for, or when it is gone the
\* live thread with the next higher id; it fails when there is none
QnxThreadCtl(liveNow, tid) ==
  LET up == {x \in liveNow : x >= tid}
  IN  IF up = {} THEN 0 ELSE CHOOSE x \in up : \A y \in up : x <= y

GetNameQnx(liveNow, tid, size, fault) ==
  IF fault = "open" THEN NameResult("NOT_FOUND", <<>>, FALSE)
  ELSE IF QnxNameBufLen < size THEN NameResult("NOT_ENOUGH_SPACE", <<>>, FALSE)
  ELSE LET got == QnxThreadCtl(liveNow, tid)
       IN  IF got = 0 THEN NameResult("ERROR", <<>>, FALSE)
           ELSE IF got # tid THEN NameResult("NOT_FOUND", <<>>, FALSE)
           ELSE IF size = 0
           THEN \* strncpy(name, ..., size - 1) with size - 1 = SIZE_MAX
                NameResult("OK", NameOf(tid), TRUE)
           ELSE NameResult("OK", SubSeq(NameOf(tid), 1, Min(Len(NameOf(tid)), size - 1)),
                           FALSE)

\* macOS: the name of the pthread, or "task<tid>"
GetNameApple(liveNow, tid, size) ==
  IF size = 0 THEN NameResult("OK", <<>>, FALSE)
  ELSE LET full == IF tid \in liveNow /\ NameOf(tid) # <<>>
                   THEN NameOf(tid)
                   ELSE <<"t", "a", "s", "k", Digit(tid)>>
       IN  NameResult("OK", SubSeq(full, 1, Min(Len(full), size - 1)), FALSE)

NameFaults(plat) == IF plat = "qnx" THEN {"none", "open"} ELSE {"none"}

ddsrt_thread_getname_anythread(plat, liveNow, tid, size, fault) ==
  CASE plat = "linux" -> GetNameLinux(liveNow, tid, size)
    [] plat = "qnx"   -> GetNameQnx(liveNow, tid, size, fault)
    [] OTHER          -> GetNameApple(liveNow, tid, size)

Capacities == 0..MaxTid
NameSizes == {0, 1, 3, 8, 2000}

NoList == [called |-> FALSE, size |-> 0, fault |-> "none", nlive |-> 0,
           err |-> "NONE", count |-> 0, buf |-> <<>>]
NoName == [called |-> FALSE, tid |-> 0, size |-> 0, fault |-> "none", wasLive |-> FALSE,
           ret |-> "NONE", name |-> <<>>, overrun |-> FALSE]

\* the system starts a thread of the process: ids count up and are not reused
OsThreadStart ==
  /\ nextTid <= MaxTid
  /\ live' = live \cup {nextTid}
  /\ nextTid' = nextTid + 1
  /\ UNCHANGED <<lastList, lastName, lastScan, cleanupVars, onceVars, createVars, nameVars>>

\* a thread other than the caller exits
OsThreadExit ==
  /\ \E tid \in live \ {1} : live' = live \ {tid}
  /\ UNCHANGED <<nextTid, lastList, lastName, lastScan, cleanupVars, onceVars, createVars, nameVars>>

ListThreads ==
  /\ \E size \in Capacities, fault \in ListFaults(platform) :
       LET r == ddsrt_thread_list(platform, live, size, fault)
       IN  lastList' = [called |-> TRUE, size |-> size, fault |-> fault,
                           nlive |-> Cardinality(live), err |-> r.err, count |-> r.count,
                           buf |-> r.buf]
  /\ UNCHANGED <<live, nextTid, lastName, lastScan, cleanupVars, onceVars, createVars, nameVars>>

GetNameOf ==
  /\ \E tid \in Tids, size \in NameSizes, fault \in NameFaults(platform) :
       LET r == ddsrt_thread_getname_anythread(platform, live, tid, size, fault)
       IN  lastName' = [called |-> TRUE, tid |-> tid, size |-> size, fault |-> fault,
                        wasLive |-> tid \in live, ret |-> r.ret, name |-> r.name,
                        overrun |-> r.overrun]
  /\ UNCHANGED <<live, nextTid, lastList, lastScan, cleanupVars, onceVars, createVars, nameVars>>

\* the bytes a stat file is made of here, and the contents of at most MaxStat bytes
StatBytes == {"(", ")", "a", "b"}
StatContents == UNION { [1..k -> StatBytes] : k \in 0..MaxStat }
ScanSizes == 0..(MaxStat + 1)

NoScan == [called |-> FALSE, content |-> <<>>, size |-> 0, ret |-> "NONE",
           namelen |-> 0, asserted |-> TRUE, written |-> {}, name |-> <<>>]

\* ddsrt_thread_getname_anythread on Linux, for a live thread whose stat file
\* holds lastScan.content, with a buffer of lastScan.size bytes
GetNameOfStat ==
  /\ platform = "linux"
  /\ LET r == ScanStat(lastScan.content, lastScan.size)
     IN  lastScan' = [lastScan EXCEPT
                        !.called = TRUE,
                        !.ret = IF r.asserted THEN "OK" ELSE "ABORT",
                        !.namelen = r.namelen, !.asserted = r.asserted,
                        !.written = r.written, !.name = r.name]
  /\ UNCHANGED <<live, nextTid, lastList, lastName, cleanupVars, onceVars, createVars, nameVars>>

InitList ==
  /\ live = {1}
  /\ nextTid = 2
  /\ lastList = NoList
  /\ lastName = NoName
  /\ lastScan = NoScan

-----------------------------------------------------------------------------
(* Naming of the calling thread: ddsrt_thread_setname and ddsrt_thread_getname *)

\* a name of n bytes
Fill(n) == [i \in 1..n |-> Digit(i % 10)]

NameInputs ==
  { <<>>, <<"w">>, <<"a", "b">>,
    Fill(MAXTHREADNAMESIZE), Fill(MAXTHREADNAMESIZE + 1),
    Fill(MAXTHREADNAMESIZE_APPLE), Fill(MAXTHREADNAMESIZE_APPLE + 1) }

GetSizes == {1, 2, 4, MAXTHREADNAMESIZE + 1, MAXTHREADNAMESIZE_APPLE + 1}

NoSet == [called |-> FALSE, name |-> <<>>]
NoGet == [called |-> FALSE, size |-> 0, str |-> <<>>, cnt |-> 0]

SetName ==
  /\ \E name \in NameInputs :
       /\ selfName' \in ddsrt_thread_setname(platform, selfName, name)
       /\ lastSet' = [called |-> TRUE, name |-> name]
  /\ lastGet' = NoGet
  /\ UNCHANGED <<cleanupVars, onceVars, createVars, listVars>>

GetName ==
  /\ \E size \in GetSizes :
       LET r == ddsrt_thread_getname(platform, selfName, size)
       IN  lastGet' = [called |-> TRUE, size |-> size, str |-> r.str, cnt |-> r.cnt]
  /\ UNCHANGED <<selfName, lastSet, cleanupVars, onceVars, createVars, listVars>>

InitName ==
  /\ selfName \in {<<>>, <<"m", "a", "i", "n">>}
  /\ lastSet = NoSet
  /\ lastGet = NoGet

InitNameIdle ==
  /\ selfName = <<>>
  /\ lastSet = NoSet
  /\ lastGet = NoGet

-----------------------------------------------------------------------------
(* Specifications *)

\* the cleanup interface used by one thread
Init ==
  /\ InitCleanup({1})
  /\ InitCreate({"linux"}, {{}}, {OtherSched})
  /\ InitList
  /\ InitNameIdle

\* push, pop and thread termination only
NextStack ==
  \E t \in Threads : CleanupPush(t) \/ CleanupPop(t) \/ ThreadExit(t)

SpecStack == Init /\ [][NextStack]_vars

\* the whole cleanup interface
Next ==
  \E t \in Threads :
    \/ CleanupPush(t)
    \/ CleanupPop(t)
    \/ ThreadInit(t)
    \/ ThreadFini(t)
    \/ ThreadExit(t)

Spec == Init /\ [][Next]_vars

\* creation, the trampoline and join
InitLifecycle ==
  /\ InitCleanup({1})
  /\ InitCreate({"linux", "apple", "zephyr"},
                {{}, {"SIGINT"}, {"SIGXCPU"}}, {OtherSched})
  /\ InitList
  /\ InitNameIdle

NextLifecycle ==
  \/ Create
  \/ \E h \in CallIds :
       \/ TrampSetName(h)
       \/ TrampRun(h)
       \/ TrampRelease(h)
       \/ TrampReturn(h)
       \/ JoinCall(h)
       \/ ddsrt_thread_join(h)

SpecCreate == InitLifecycle /\ [][NextLifecycle]_vars

\* the same, with a scheduler that lets every spawned thread run to its end and
\* a pthread_join that returns when it can
InitJoin ==
  /\ InitCleanup({1})
  /\ InitCreate({"linux"}, {{}}, {OtherSched})
  /\ InitList
  /\ InitNameIdle

SpecCreateFair ==
  /\ InitJoin
  /\ [][NextLifecycle]_vars
  /\ \A h \in CallIds :
       /\ WF_vars(TrampSetName(h))
       /\ WF_vars(TrampRun(h))
       /\ WF_vars(TrampRelease(h))
       /\ WF_vars(TrampReturn(h))
       /\ WF_vars(ddsrt_thread_join(h))

\* one create call over the attribute descriptors and creator schedulings
InitSched ==
  /\ InitCleanup({1})
  /\ InitCreate({"linux", "apple", "zephyr"}, {{}}, {OtherSched, FifoSched})
  /\ InitList
  /\ InitNameIdle

NextSched ==
  \/ CreateAny
  \/ \E h \in CallIds : TrampSetName(h)

SpecSched == InitSched /\ [][NextSched]_vars

\* push, pop and termination with memory for the records that routines push
\* during the destructor rounds of a terminating thread
InitUnwind ==
  /\ InitCleanupMem({1}, MaxRec + PTHREAD_DESTRUCTOR_ITERATIONS)
  /\ InitCreate({"linux"}, {{}}, {OtherSched})
  /\ InitList
  /\ InitNameIdle

NextUnwind ==
  \E t \in Threads : UnwindPush(t) \/ CleanupPop(t) \/ ThreadExit(t)

SpecUnwind == InitUnwind /\ [][NextUnwind]_vars

\* the cleanup interface used by two threads side by side
InitShared ==
  /\ InitCleanup(Threads)
  /\ InitCreate({"linux"}, {{}}, {OtherSched})
  /\ InitList
  /\ InitNameIdle

NextShared ==
  \E t \in Threads :
    \/ CallEnter(t)
    \/ OnceRun(t)
    \/ OnceWake(t)
    \/ CallBody(t)
    \/ SharedExit(t)

SpecShared == InitShared /\ [][NextShared]_vars

\* the calling thread sets and reads its name
InitNaming ==
  /\ InitCleanup({1})
  /\ InitCreate({"linux", "apple"}, {{}}, {OtherSched})
  /\ InitList
  /\ InitName

NextNaming == SetName \/ GetName

SpecName == InitNaming /\ [][NextNaming]_vars

\* enumeration and name lookup while threads start and exit
InitEnum ==
  /\ InitCleanup({1})
  /\ InitCreate({"linux", "qnx", "apple"}, {{}}, {OtherSched})
  /\ InitList
  /\ InitNameIdle

NextEnum ==
  \/ OsThreadStart
  \/ OsThreadExit
  \/ ListThreads
  \/ GetNameOf

SpecList == InitEnum /\ [][NextEnum]_vars

\* the Linux lookup over the contents of a stat file
InitScan ==
  /\ InitCleanup({1})
  /\ InitCreate({"linux"}, {{}}, {OtherSched})
  /\ live = {1} /\ nextTid = 2 /\ lastList = NoList /\ lastName = NoName
  /\ \E content \in StatContents, size \in ScanSizes :
       lastScan = [NoScan EXCEPT !.content = content, !.size = size]
  /\ InitNameIdle

NextScan == GetNameOfStat

SpecScan == InitScan /\ [][NextScan]_vars

-----------------------------------------------------------------------------
(* Properties of the cleanup stack *)

Range(s) == {s[i] : i \in 1..Len(s)}

\* the records thread t pushed that no pop or unwinding has taken yet, oldest first
Unpopped(t) ==
  LET Keep(r) == r \notin consumed
  IN  SelectSeq(pushSeq[t], Keep)

Asked(r) == [rec |-> r, routine |-> req[r].routine, arg |-> req[r].arg]

\* C1: in every run of cleanup_push and cleanup_pop calls of a thread, a
\* cleanup_pop(execute = true) that succeeds invokes the routine, with its
\* argument, of the most recently pushed record not popped yet (and where that
\* routine itself pops, the next most recent one, and so on); a cleanup_pop on an
\* empty stack returns OK and invokes nothing.
C1_PopInvokesMostRecent ==
  [][\A t \in Threads :
       (last'.op = "pop" /\ last'.t = t /\ last'.execute) =>
         LET u == Unpopped(t)
             n == Len(u)
             inv == last'.inv
         IN  /\ n = 0 => (last'.ret = "OK" /\ inv = <<>>)
             /\ (n > 0 /\ last'.ret = "OK") =>
                   /\ Len(inv) \in 1..n
                   /\ \A i \in 1..Len(inv) : inv[i] = Asked(u[n + 1 - i])
    ]_vars

\* two records were pushed, and the last pop invoked the older of them
C1_Witness ==
  /\ last.op = "pop" /\ last.execute /\ last.ret = "OK"
  /\ Len(pushSeq[1]) >= 2
  /\ Len(last.inv) = 1
  /\ last.inv[1].rec = pushSeq[1][1]
  /\ pushSeq[1][2] \in consumed

\* C2: when a thread terminates, every record still on its cleanup stack is
\* invoked exactly once, most recently pushed first, with the routine and
\* argument it was pushed with, and the termination then completes.
C2_ExitUnwindsLifo ==
  [][\A t \in Threads :
       (last'.op = "exit" /\ last'.t = t) =>
         LET rem == Reverse(Unpopped(t))
             inv == last'.inv
             Remaining(e) == e.rec \in Range(rem)
         IN  /\ SelectSeq(inv, Remaining) = [i \in 1..Len(rem) |-> Asked(rem[i])]
             /\ last'.ret # "CRASH"
             /\ tstate'[t] = "exited"
    ]_vars

\* a thread has terminated with two records left, both invoked by the exit
C2_Witness ==
  /\ last.op = "exit" /\ tstate[1] = "exited"
  /\ Len(last.inv) >= 2
  /\ last.inv[1].rec = pushSeq[1][2]
  /\ last.inv[2].rec = pushSeq[1][1]

\* C3: no cleanup record is invoked more than once or released more than once.
C3_AtMostOnce ==
  \A r \in RecIds : invokeCnt[r] <= 1 /\ freeCnt[r] <= 1

\* the records allocated and not released
LiveRecs == {r \in RecIds : heap[r].st = "live"}

\* C11: a cleanup_push or cleanup_pop that returns OUT_OF_RESOURCES leaves the
\* caller's cleanup stack as it was (same head, same records, same order and
\* contents), invokes no routine and leaves no record allocated that was not
\* allocated before.
C11_FailureLeavesStack ==
  [][\A t \in Threads :
       (last'.op \in {"push", "pop"} /\ last'.t = t
        /\ last'.ret = "OUT_OF_RESOURCES") =>
         /\ thread_cleanup_key' = thread_cleanup_key
         /\ Unpopped(t)' = Unpopped(t)
         /\ last'.inv = <<>>
         /\ invokeCnt' = invokeCnt
         /\ LiveRecs' = LiveRecs
         /\ \A r \in LiveRecs : heap'[r] = heap[r]
    ]_vars

\* an earlier push failed after its allocation (its record was released without
\* ever being linked), and the last pop failed with two records on the stack
C11_Witness ==
  /\ last.op = "pop" /\ last.ret = "OUT_OF_RESOURCES"
  /\ Len(Unpopped(1)) >= 2
  /\ \E r \in RecIds : heap[r].st = "freed" /\ r \notin Range(pushSeq[1])

RECURSIVE ChainFrom(_, _)
\* the records linked from r through prev, r first (at most n of them)
ChainFrom(r, n) ==
  IF r = NULL \/ n = 0 THEN <<>>
  ELSE <<r>> \o ChainFrom(heap[r].prev, n - 1)

\* the cleanup stack of thread t as the code sees it, most recent record first
LinkedStack(t) == ChainFrom(thread_cleanup_key[t], Cardinality(RecIds))

Acting(t) ==
  \/ pc[t] = "body" /\ pc'[t] = "idle"
  \/ tstate[t] = "running" /\ tstate'[t] = "exited"

\* C19: under every interleaving of the threads, a push, pop, teardown or
\* termination by one thread changes only that thread's cleanup stack and
\* invokes only records that thread pushed; the stack and the records of every
\* other thread are as before.
C19_StackIsThreadLocal ==
  [][/\ \A t \in Threads :
          Acting(t) =>
            /\ \A u \in Threads \ {t} :
                  /\ thread_cleanup_key'[u] = thread_cleanup_key[u]
                  /\ LinkedStack(u)' = LinkedStack(u)
                  /\ pushSeq'[u] = pushSeq[u]
                  /\ \A r \in Range(pushSeq[u]) :
                        /\ heap'[r] = heap[r]
                        /\ invokeCnt'[r] = invokeCnt[r]
                        /\ freeCnt'[r] = freeCnt[r]
            /\ \A r \in RecIds :
                  invokeCnt'[r] # invokeCnt[r] => r \in Range(pushSeq[t])
            /\ \A i \in 1..Len(last'.inv) : last'.inv[i].rec \in Range(pushSeq[t])
     /\ (\A t \in Threads : ~Acting(t)) =>
          <<thread_cleanup_key, heap, pushSeq, invokeCnt, freeCnt>>' =
          <<thread_cleanup_key, heap, pushSeq, invokeCnt, freeCnt>>
    ]_vars

\* thread 2 popped and ran a record of its own while thread 1 had two records on
\* its stack
C19_Witness ==
  /\ last.op = "pop" /\ last.t = 2 /\ last.ret = "OK"
  /\ Len(last.inv) = 1 /\ last.inv[1].rec \in Range(pushSeq[2])
  /\ Len(LinkedStack(1)) = 2

\* C20: no cleanup record outlives its thread: when a thread's termination has
\* completed, none of the records it pushed is still allocated or linked, also
\* for records pushed by a cleanup routine during the exit-time unwinding.
C20_NoRecordOutlivesThread ==
  \A t \in Threads :
    tstate[t] = "exited" =>
      /\ thread_cleanup_key[t] = NULL
      /\ \A r \in Range(pushSeq[t]) : heap[r].st # "live"

\* C12: under every interleaving of init, fini, push and pop calls of the
\* threads, the cleanup key is created exactly once, and a thread gets to the
\* part of a call that reads or writes its thread-specific value only after
\* that creation has completed.
C12_KeyCreatedOnce ==
  /\ keysCreated <= 1
  /\ thread_once = "DONE" => keysCreated = 1
  /\ \A t \in Threads :
       /\ pc[t] = "body" => (thread_once = "DONE" /\ keysCreated = 1)
       /\ (thread_cleanup_key[t] # NULL \/ pushSeq[t] # <<>>) => keysCreated = 1

\* thread 2 called push while thread 1 was creating the key, waited for it, and is
\* about to use its thread-specific value; thread 1 has pushed a record
C12_Witness ==
  /\ pc[2] = "body" /\ pend[2].op = "push" /\ pend[2].waited
  /\ keysCreated = 1
  /\ pushSeq[1] # <<>>

-----------------------------------------------------------------------------
(* Properties of creation and join *)

\* C4: the ThreadContext a create call allocates is released exactly once and by
\* one party: by the spawned thread, after the user routine returned, when the
\* spawn succeeded, and by the creator when the spawn failed; it is live for as
\* long as the routine can still run.
C4_ContextReleasedOnce ==
  \A h \in CallIds :
    LET c == calls[h]
    IN  c.made =>
          /\ Len(c.releasedBy) <= 1
          /\ (c.ctx = "freed") = (Len(c.releasedBy) = 1)
          /\ c.ret = "OK" =>
                /\ c.ctx # "none"
                /\ c.phase \in {"spawned", "named", "ran"} =>
                      (c.ctx = "live" /\ c.releasedBy = <<>>)
                /\ c.phase \in {"released", "terminated", "joined"} =>
                      (c.releasedBy = <<"thread">> /\ c.runs = 1)
                /\ c.runs > 0 => c.ctxAtRun = "live"
          /\ c.ret = "ERROR" =>
                /\ c.phase = "none"
                /\ c.ctx # "none" => c.releasedBy = <<"creator">>

\* a joined thread released its context, after running the routine
C4_Witness ==
  \E h \in CallIds :
    /\ calls[h].phase = "joined"
    /\ calls[h].releasedBy = <<"thread">>
    /\ calls[h].runs = 1

\* C5: when create has returned, the creator's signal mask is the mask it had
\* before the call, whether the spawn succeeded or failed.
C5_MaskRestored ==
  \A h \in CallIds :
    calls[h].made => calls[h].maskAfter = calls[h].maskBefore

\* C6: with schedClass DEFAULT and schedPriority # 0 create returns ERROR,
\* whatever the other attributes (except on Zephyr, where DEFAULT takes a
\* priority); no context is allocated and no thread is spawned.
C6_DefaultWithPriorityFails ==
  \A h \in CallIds :
    LET c == calls[h]
    IN  (c.made /\ platform # "zephyr"
         /\ c.attr.schedClass = "DEFAULT" /\ c.attr.schedPriority # 0) =>
          (c.ret = "ERROR" /\ c.phase = "none" /\ c.ctx = "none")

\* such a call was made, with an affinity set and a stack size, and no native call failed
C6_Witness ==
  \E h \in CallIds :
    /\ calls[h].made /\ platform = "linux" /\ ~calls[h].faultHit
    /\ calls[h].attr.schedClass = "DEFAULT" /\ calls[h].attr.schedPriority = 50
    /\ calls[h].attr.schedAffinitySet = <<0, 1>> /\ calls[h].attr.stackSize = 65536
    /\ calls[h].ret = "ERROR"

\* the native policy a class maps to
PolicyOfClass(class) == IF class = "REALTIME" THEN "SCHED_FIFO" ELSE "SCHED_OTHER"

\* C7: with schedClass REALTIME or TIMESHARE and a priority outside the valid
\* range of the mapped policy, create succeeds with a warning and the thread runs
\* at the fallback priority; the invalid priority does not make create fail.
\* (Stated for calls in which nothing else can fail: no native call reports a
\* failure, no affinity set, default stack size, not Zephyr.)
C7_InvalidPriorityFallsBack ==
  \A h \in CallIds :
    LET c == calls[h]
    IN  (c.made /\ platform # "zephyr" /\ ~c.faultHit
         /\ c.attr.schedClass \in {"REALTIME", "TIMESHARE"}
         /\ ~PrioValid(PolicyOfClass(c.attr.schedClass), c.attr.schedPriority)
         /\ c.attr.schedAffinitySet = <<>> /\ c.attr.stackSize = 0) =>
          (c.ret = "OK" /\ c.warned /\ c.prio # c.attr.schedPriority)

\* C21: with a non-empty affinity set, create returns ERROR when some requested
\* CPU id is outside the range of the native mask or the platform has no
\* affinity support, with no context allocated and no thread spawned; a create
\* that succeeds leaves a native mask holding exactly the requested ids, so that
\* sequences with the same ids in another order or with repetitions give the
\* same mask.
C21_AffinityRangeAndMask ==
  \A h \in CallIds :
    LET c == calls[h]
        set == c.attr.schedAffinitySet
    IN  (c.made /\ Len(set) > 0) =>
          /\ (platform # "linux" \/ \E i \in 1..Len(set) : set[i] >= CPU_SETSIZE) =>
                (c.ret = "ERROR" /\ c.ctx = "none" /\ c.phase = "none")
          /\ c.ret = "OK" =>
                /\ \A i \in 1..Len(set) : set[i] < CPU_SETSIZE
                /\ c.affinity = Range(set)

\* a create with a reordered, repeated id sequence succeeded on Linux
C21_Witness ==
  \E h \in CallIds :
    /\ calls[h].made /\ platform = "linux" /\ calls[h].ret = "OK"
    /\ calls[h].attr.schedAffinitySet = <<1, 0, 0>>
    /\ calls[h].affinity = {0, 1}

\* C8: after a successful create and a successful join, the result join
\* delivers is the low 32 bits of the value the user routine returned.
C8_JoinResultLow32 ==
  (lastJoin.ret = "OK" /\ lastJoin.result # <<>>) =>
    LET c == calls[lastJoin.h]
    IN  /\ c.ret = "OK" /\ c.runs = 1
        /\ Len(lastJoin.result) = 2
        /\ lastJoin.result[1] = c.resultValue[1]
        /\ lastJoin.result[2] = c.resultValue[2]

\* the routine returned a value with bits above the low 32, and join delivered <<1, 2>>
C8_Witness ==
  /\ lastJoin.ret = "OK"
  /\ lastJoin.result = <<1, 2>>
  /\ calls[lastJoin.h].resultValue = <<1, 2, 3, 0>>

\* C14: join returns OK only after the target thread has terminated, its
\* routine having returned and the trampoline having released the context; and
\* once the routine has returned, a join blocked on the thread returns.
C14_JoinAfterTermination ==
  /\ [](\A h \in CallIds :
          calls[h].joiner = "returned" =>
            /\ calls[h].phase = "joined"
            /\ calls[h].runs = 1
            /\ calls[h].retval = calls[h].resultValue
            /\ calls[h].ctx = "freed" /\ calls[h].releasedBy = <<"thread">>)
  /\ \A h \in CallIds :
       (calls[h].joiner = "blocked" /\ calls[h].runs = 1) ~> (calls[h].joiner = "returned")

\* a join called before the thread had terminated has returned OK
C14_Witness ==
  \E h \in CallIds :
    /\ calls[h].joiner = "returned" /\ calls[h].joinAt = "early"
    /\ lastJoin.h = h /\ lastJoin.ret = "OK"

\* C17: the user routine is invoked exactly once, with the argument given to
\* create, if and only if create returns OK; when create returns ERROR the
\* routine is never invoked, no thread exists and no context stays allocated.
C17_RoutineRunsIffCreated ==
  /\ [](\A h \in CallIds :
          LET c == calls[h]
          IN  c.made =>
                /\ c.runs <= 1
                /\ c.runs = 1 => (c.ret = "OK" /\ c.argSeen = c.arg)
                /\ (c.ret = "OK") = (c.phase # "none")
                /\ c.phase \in {"ran", "released", "terminated", "joined"} => c.runs = 1
                /\ c.ret = "ERROR" =>
                      (c.runs = 0 /\ c.phase = "none" /\ c.ctx \in {"none", "freed"}))
  /\ \A h \in CallIds : (calls[h].ret = "OK") ~> (calls[h].runs = 1)

\* a create call failed in pthread_create: the context was released by the
\* creator and the routine did not run
C17_Witness ==
  \E h \in CallIds :
    /\ calls[h].ret = "ERROR" /\ calls[h].faultHit
    /\ calls[h].releasedBy = <<"creator">>
    /\ calls[h].runs = 0 /\ calls[h].phase = "none"

TrampolineOrder == <<"setname", "routine", "release", "return">>

\* C18: in every spawned thread the trampoline applies the requested name, then
\* runs the user routine, then releases the context, then returns the routine's
\* result; the routine runs with the name applied and the context live.
C18_TrampolineOrder ==
  \A h \in CallIds :
    LET c == calls[h]
    IN  /\ IsPrefix(c.steps, TrampolineOrder)
        /\ c.runs > 0 =>
              /\ c.tname = c.name
              /\ c.ctxAtRun = "live"
        /\ c.phase \in {"terminated", "joined"} =>
              /\ c.steps = TrampolineOrder
              /\ c.ctx = "freed"
              /\ c.retval = c.resultValue

\* a thread named "io" has gone through the four steps
C18_Witness ==
  \E h \in CallIds :
    /\ calls[h].steps = TrampolineOrder
    /\ calls[h].tname = <<"i", "o">>
    /\ calls[h].ctxAtRun = "live"

-----------------------------------------------------------------------------
(* Properties of naming *)

\* C13: for every name X, set_name(X) followed by get_name with a buffer that
\* holds the platform maximum yields a prefix of X of at most the maximum
\* length, and X itself when X is shorter than the maximum.
C13_SetThenGet ==
  (lastSet.called /\ lastGet.called /\ lastGet.size > MaxNameSize(platform)) =>
    /\ IsPrefix(lastGet.str, lastSet.name)
    /\ Len(lastGet.str) <= MaxNameSize(platform)
    /\ Len(lastSet.name) < MaxNameSize(platform) => lastGet.str = lastSet.name

\* C22: for every buffer size >= 1, get_name leaves a terminated string of at
\* most size-1 bytes and returns the length of what it wrote; the string is the
\* thread's name cut to fit or, when the thread has no name or an empty one, the
\* decimal form of its numeric identifier.
C22_GetNameWrittenLength ==
  (lastGet.called /\ lastGet.size >= 1) =>
    /\ Len(lastGet.str) <= lastGet.size - 1
    /\ lastGet.cnt = Len(lastGet.str)
    /\ lastGet.str = Prefix(IF selfName = <<>> THEN SelfTid ELSE selfName,
                            lastGet.size - 1)

-----------------------------------------------------------------------------
(* Properties of enumeration *)

\* C9: for every capacity and N >= 1 live threads, list_threads returns N, also
\* when N exceeds the capacity; it writes min(N, capacity) identifiers, none past
\* the capacity, and with capacity >= N the identifiers written are distinct.
C9_ListReturnsTrueCount ==
  (lastList.called /\ lastList.fault = "none") =>
    LET N == lastList.nlive
        buf == lastList.buf
    IN  /\ lastList.err = "OK"
        /\ lastList.count = N
        /\ Len(buf) = Min(N, lastList.size)
        /\ lastList.size >= N =>
              \A i, j \in 1..Len(buf) : i # j => buf[i] # buf[j]

\* C15: list_threads returns ERROR whenever the enumeration cannot be opened or
\* queried and whenever it yields no thread; it returns neither 0 nor another
\* error code then.
C15_ListFailsWithError ==
  lastList.called =>
    /\ lastList.fault # "none" => lastList.err = "ERROR"
    /\ ~(lastList.err = "OK" /\ lastList.count = 0)

\* C10: get_name_of with an identifier that is not a live thread of the process
\* returns NOT_FOUND: for identifiers that never existed, and for a thread that
\* a list_threads call reported and that exited before the lookup.
C10_NotLiveIsNotFound ==
  (lastName.called /\ lastName.fault = "none" /\ ~lastName.wasLive) =>
    lastName.ret = "NOT_FOUND"

\* C24: on the backend that reports a thread's name only as a whole (QNX),
\* get_name_of of a live thread returns NOT_ENOUGH_SPACE exactly when the
\* destination buffer is smaller than the name and its terminator need, and does
\* not return it when the buffer is at least that large.
C24_NotEnoughSpaceIffTooSmall ==
  (lastName.called /\ platform = "qnx" /\ lastName.fault = "none" /\ lastName.wasLive) =>
    (lastName.ret = "NOT_ENOUGH_SPACE" <=> lastName.size < Len(NameOf(lastName.tid)) + 1)

\* the positions of the first '(' of a content and of its last ')' after it (0: none)
FirstOpen(s) ==
  LET at == {i \in 1..Len(s) : s[i] = "("}
  IN  IF at = {} THEN 0 ELSE CHOOSE i \in at : \A j \in at : i <= j

LastClose(s) ==
  LET at == {i \in 1..Len(s) : s[i] = ")" /\ FirstOpen(s) # 0 /\ i > FirstOpen(s)}
  IN  IF at = {} THEN 0 ELSE CHOOSE i \in at : \A j \in at : i >= j

\* C23: on Linux, for every content of the stat file and every buffer size,
\* get_name_of leaves in the buffer the text between the first '(' and the
\* last ')' of the content, cut to at most size-1 bytes and terminated; it
\* writes only inside name[0 .. size-1], and the assertion that namelen < size
\* (or size is 0) holds after the scan, also for names that contain ')' and
\* names that are cut.
C23_StatNameBetweenParens ==
  lastScan.called =>
    LET s == lastScan.content
    IN  /\ lastScan.asserted /\ lastScan.ret = "OK"
        /\ \A i \in lastScan.written : i < lastScan.size
        /\ lastScan.size > 0 =>
              /\ lastScan.namelen \in lastScan.written
              /\ Len(lastScan.name) <= lastScan.size - 1
              /\ LastClose(s) # 0 =>
                    lastScan.name =
                      Prefix(SubSeq(s, FirstOpen(s) + 1, LastClose(s) - 1), lastScan.size - 1)

\* a name with a ')' inside was cut to two bytes
C23_Witness ==
  /\ lastScan.called /\ lastScan.size = 3
  /\ lastScan.content = <<"(", "a", ")", "b", ")">>
  /\ lastScan.name = <<"a", ")">>

====
